---- MODULE Spec2Model ----
(***************************************************************************)
(* Prepared-statement subsystem of mysql_async (src/queryable/stmt.rs):    *)
(* statement resolution through the per-connection statement cache, the    *)
(* prepare round trips, parameter binding, long-data transmission,         *)
(* execute and close.  Every handler is one action; the commands it writes *)
(* and the packets it reads are recorded, in order, in last.trace.         *)
(***************************************************************************)
EXTENDS Integers, Sequences, FiniteSets, TLC

VARIABLES
    stmt_cache,     \* per connection: cached StmtInner records, most recently used first
    next_stmt_id,   \* per connection: the id the server assigns to the next prepare
    prepared,       \* the StmtInner records created so far (returned or cached)
    closed,         \* per connection: handle ids a COM_STMT_CLOSE was written for
    evicted,        \* per connection: handle ids displaced from the cache
    last            \* the last call: its input, its result, the I/O it performed

vars == <<stmt_cache, next_stmt_id, prepared, closed, evicted, last>>

----------------------------------------------------------------------------
(* Bounds of the model *)

\* capacity of each connection's statement cache
StmtCacheSize == 2
\* the server prepares at most MaxStmts statements, all connections together
MaxStmts == 3
\* byte values are up to MaxChunks full chunks plus one byte long
MaxChunks == 2

\* the server prepares at most MaxReuseStmts statements where statements are
\* prepared again
MaxReuseStmts == 4

\* The passes through the loop of execute_statement that are followed.
MaxIters == 3

(* Program constants *)

\* mysql_common::constants::MAX_PAYLOAD_LEN
MAX_PAYLOAD_LEN == 16777215
\* number of values of the u16 `supplied` field
U16_RANGE == 65536

\* Connection ids.
Conns == {1, 2}

\* conn_ref().capabilities().contains(CLIENT_DEPRECATE_EOF): negotiated by
\* connection 1, not by connection 2.
capabilities_contains_DEPRECATE_EOF(c) == c = 1

----------------------------------------------------------------------------
(* Option<T> *)

Some(x) == [some |-> TRUE, v |-> <<x>>]

None == [some |-> FALSE, v |-> <<>>]

Unwrap(o) == o.v[1]

Max(a, b) == IF a >= b THEN a ELSE b

Min(a, b) == IF a <= b THEN a ELSE b

RECURSIVE Concat(_)
Concat(ss) == IF ss = <<>> THEN <<>> ELSE Head(ss) \o Concat(Tail(ss))

----------------------------------------------------------------------------
(* Transport events: one record per command written or packet read. *)

Event(cmd, q, id, idx, off, len) ==
    [cmd |-> cmd, q |-> q, id |-> id, idx |-> idx, off |-> off, len |-> len, ok |-> TRUE]

\* write_command_data(Command::COM_STMT_PREPARE, raw_query)
WritePrepare(q) == Event("COM_STMT_PREPARE", q, 0, 0, 0, 0)

\* read_packet / one packet of read_packets; kind names what the server sent
ReadPacket(kind) == Event("read_packet", kind, 0, 0, 0, 0)

\* A transport call that failed: the event is the last of its call's trace.
Failed(e) == [e EXCEPT !.ok = FALSE]

\* The first k events of trace t, the k-th having failed.
FailAt(t, k) == SubSeq(t, 1, k - 1) \o <<Failed(t[k])>>

IsWrite(e) == e.cmd # "read_packet"

Writes(t) == SelectSeq(t, IsWrite)

Reads(t) == SelectSeq(t, LAMBDA e : e.cmd = "read_packet")

Commands(t, cmd) == SelectSeq(t, LAMBDA e : e.cmd = cmd)

\* The handle ids a COM_STMT_CLOSE was written for in trace t.
ClosedIds(t) ==
    {t[k].id : k \in {j \in 1..Len(t) : t[j].cmd = "COM_STMT_CLOSE" /\ t[j].ok}}

\* The number of handle ids the server assigned in trace t: one for each
\* COM_STMT_PREPARE_OK packet it answered with.
AssignedIds(t) ==
    Len(SelectSeq(t, LAMBDA e : e.cmd = "read_packet" /\ e.q = "stmt" /\ e.ok))

\* Points of failure of a call: none, the k-th transport call, a payload that
\* does not parse at the given stage.
NoFail == [kind |-> "none", at |-> 0, stage |-> ""]

IoFail(k) == [kind |-> "io", at |-> k, stage |-> ""]

ParseFail(stage) == [kind |-> "parse", at |-> 0, stage |-> stage]

----------------------------------------------------------------------------
(* Query texts, the named-parameter parser and the server's answers. *)

Texts ==
    {"SELECT 1", "SELECT ?", "SELECT :a", "DO ?, ?", "DO :a, :b", "DO :b, :a", "DO ?, :a",
     "SELECT ?, ?", "SELECT :"}

Names == {"a", "b"}

\* crate::conn::named_params::parse_named_params: the name list (None when the
\* text has no named placeholder) and the text with `?` placeholders.
parse_named_params(text) ==
    CASE text = "SELECT :a" -> [ok |-> TRUE, named_params |-> Some(<<"a">>), raw_query |-> "SELECT ?"]
      [] text = "DO :a, :b" -> [ok |-> TRUE, named_params |-> Some(<<"a", "b">>), raw_query |-> "DO ?, ?"]
      [] text = "DO :b, :a" -> [ok |-> TRUE, named_params |-> Some(<<"b", "a">>), raw_query |-> "DO ?, ?"]
      [] text = "DO ?, :a"  -> [ok |-> TRUE, named_params |-> Some(<<"a">>), raw_query |-> "DO ?, ?"]
      [] text = "SELECT :"  -> [ok |-> FALSE, named_params |-> None, raw_query |-> ""]
      [] OTHER              -> [ok |-> TRUE, named_params |-> None, raw_query |-> text]

\* The number of `?` placeholders the server finds in a query.
server_num_params(q) ==
    CASE q = "SELECT ?"    -> 1
      [] q = "DO ?, ?"     -> 2
      [] q = "SELECT ?, ?" -> 2
      [] OTHER          -> 0

\* The number of result columns of a query.
server_num_columns(q) == IF q \in {"SELECT 1", "SELECT ?", "SELECT ?, ?"} THEN 1 ELSE 0

\* The COM_STMT_PREPARE_OK payload the server answers with.
StmtPacket(q, id) ==
    [statement_id |-> id, num_params |-> server_num_params(q), num_columns |-> server_num_columns(q)]

----------------------------------------------------------------------------
(* StmtInner and Statement *)

from_payload(pld, connection_id, raw_query) ==
    [raw_query |-> raw_query, columns |-> None, params |-> None,
     stmt_packet |-> pld, connection_id |-> connection_id]

\* with_params that leaves the descriptors out.
with_params_left_out(inner, ps) == inner

with_params(inner, ps) ==
    [inner EXCEPT !.params = IF ps = <<>> THEN None ELSE Some(ps)]

with_columns(inner, cs) ==
    [inner EXCEPT !.columns = IF cs = <<>> THEN None ELSE Some(cs)]

columns(inner) == IF inner.columns.some THEN Unwrap(inner.columns) ELSE <<>>

params(inner) == IF inner.params.some THEN Unwrap(inner.params) ELSE <<>>

id(inner) == inner.stmt_packet.statement_id

num_params(inner) == inner.stmt_packet.num_params

num_columns(inner) == inner.stmt_packet.num_columns

Statement_new(inner, named_params) == [inner |-> inner, named_params |-> named_params]

\* What a call is given as statement-like input: a text or a Statement.
StrLike(text) == [kind |-> "str", text |-> text, stmt |-> None]

StatementLike(s) == [kind |-> "Statement", text |-> "", stmt |-> Some(s)]

\* info that loses the name list of a Statement.
info_without_names(stmt_like) ==
    IF stmt_like.kind = "str"
    THEN parse_named_params(stmt_like.text)
    ELSE [ok |-> TRUE,
          named_params |-> None,
          raw_query |-> Unwrap(stmt_like.stmt).inner.raw_query]

info(stmt_like) ==
    IF stmt_like.kind = "str"
    THEN parse_named_params(stmt_like.text)
    ELSE [ok |-> TRUE,
          named_params |-> Unwrap(stmt_like.stmt).named_params,
          raw_query |-> Unwrap(stmt_like.stmt).inner.raw_query]

\* The name lists get_statement pairs with the metadata of raw_query: one for
\* each text that parses to it.
NameLists(texts, raw_query) ==
    {parse_named_params(t).named_params :
        t \in {x \in texts : parse_named_params(x).ok /\ parse_named_params(x).raw_query = raw_query}}

\* The Statement handles a caller of get_statement on the given texts can hold:
\* get_statement returns a prepared
\* StmtInner with the name list of the text it was given (a lookup of the entry
\* just installed returns it and leaves the cache as it is).
Handles(texts) ==
    UNION {{Statement_new(inner, names) : names \in NameLists(texts, inner.raw_query)} :
              inner \in prepared}

----------------------------------------------------------------------------
(* The per-connection statement cache: a bounded map from raw query text to *)
(* StmtInner, least recently used entry displaced first.                    *)

\* Conn::get_cached_stmt: the entry under raw_query, which becomes the most
\* recently used one.
get_cached_stmt(cache, raw_query) ==
    LET hits == SelectSeq(cache, LAMBDA e : e.raw_query = raw_query)
        rest == SelectSeq(cache, LAMBDA e : e.raw_query # raw_query)
    IN  IF hits = <<>>
        THEN [stmt |-> None, cache |-> cache]
        ELSE [stmt |-> Some(hits[1]), cache |-> <<hits[1]>> \o rest]

\* Conn::cache_stmt: installs inner under its raw query; returns the entry it
\* displaced, if the capacity was exceeded.
cache_stmt(cache, inner) ==
    LET put == <<inner>> \o SelectSeq(cache, LAMBDA e : e.raw_query # inner.raw_query)
    IN  IF Len(put) > StmtCacheSize
        THEN [old |-> Some(put[Len(put)]), cache |-> SubSeq(put, 1, Len(put) - 1)]
        ELSE [old |-> None, cache |-> put]

----------------------------------------------------------------------------
(* Close *)

\* close_statement that waits for a reply of the server.
close_statement_reads_reply(stmt_id) ==
    <<Event("COM_STMT_CLOSE", "", stmt_id, 0, 0, 0), ReadPacket("ok")>>

\* write_command_raw(ComStmtClose::new(id).into())
close_statement(stmt_id) == <<Event("COM_STMT_CLOSE", "", stmt_id, 0, 0, 0)>>

----------------------------------------------------------------------------
(* Prepare *)

\* read_packets(num)
read_packets(num) == [i \in 1..num |-> ReadPacket("column_def")]

\* The packets read, the trailing EOF read when the capabilities lack
\* CLIENT_DEPRECATE_EOF, and the column definitions parsed.
read_column_defs(c, num) ==
    [packets |-> read_packets(num),
     trace   |-> read_packets(num) \o
                 (IF ~capabilities_contains_DEPRECATE_EOF(c)
                  THEN <<ReadPacket("eof")>> ELSE <<>>),
     defs    |-> [i \in 1..num |-> "Column"]]

\* close_old_stmt that drops the displaced entry without closing it.
close_old_stmt_skipped(old) == <<>>

\* What the close of the entry displaced by cache_stmt writes.
close_old_stmt(old) ==
    IF old.some THEN close_statement(id(Unwrap(old))) ELSE <<>>

\* close_failure_result with the error of the close swallowed.
close_failure_swallowed(inner_stmt) == [ok |-> TRUE, err |-> "", inner |-> Some(inner_stmt)]

\* How prepare_statement ends when a transport call after the cache insertion
\* (the close of the displaced entry) fails: `?` returns the error.
close_failure_result(inner_stmt) == [ok |-> FALSE, err |-> "Io", inner |-> None]

\* `if inner_stmt.num_params() > 0 { read_column_defs; with_params }`
read_params(c, inner_stmt) ==
    IF num_params(inner_stmt) > 0
    THEN LET r == read_column_defs(c, num_params(inner_stmt))
         IN  [inner |-> with_params(inner_stmt, r.defs), trace |-> r.trace, packets |-> r.packets]
    ELSE [inner |-> inner_stmt, trace |-> <<>>, packets |-> <<>>]

\* `if inner_stmt.num_columns() > 0 { read_column_defs; with_columns }`
read_columns(c, inner_stmt) ==
    IF num_columns(inner_stmt) > 0
    THEN LET r == read_column_defs(c, num_columns(inner_stmt))
         IN  [inner |-> with_columns(inner_stmt, r.defs), trace |-> r.trace, packets |-> r.packets]
    ELSE [inner |-> inner_stmt, trace |-> <<>>, packets |-> <<>>]

\* The steps of a prepare from the cache insertion on: put is what cache_stmt
\* returned for the statement read by ps (parameters) and cs (columns).
steps_from_insertion(head, ps, cs, put) ==
    [head         |-> head,
     params_read  |-> ps.trace,
     params_pkts  |-> ps.packets,
     columns_read |-> cs.trace,
     columns_pkts |-> cs.packets,
     inner_stmt   |-> cs.inner,
     put          |-> put,
     closing      |-> close_old_stmt(put.old)]

\* The steps of a prepare from the column definitions on.
steps_from_columns(c, head, ps, cs) ==
    steps_from_insertion(head, ps, cs, cache_stmt(stmt_cache[c], cs.inner))

\* The steps of a prepare from the parameter definitions on.
steps_from_params(c, head, ps) ==
    steps_from_columns(c, head, ps, read_columns(c, ps.inner))

\* prepare_steps that reads the result-column definitions before the
\* parameter definitions.
prepare_steps_columns_first(c, raw_query) ==
    LET s == steps_from_params(c, <<WritePrepare(raw_query), ReadPacket("stmt")>>,
                 read_params(c, from_payload(StmtPacket(raw_query, next_stmt_id[c]), c, raw_query)))
    IN  [s EXCEPT !.params_read = s.columns_read, !.params_pkts = s.columns_pkts,
                  !.columns_read = s.params_read, !.columns_pkts = s.params_pkts]

\* The steps of one prepare_statement on connection c, when none of them fails.
prepare_steps(c, raw_query) ==
    steps_from_params(c, <<WritePrepare(raw_query), ReadPacket("stmt")>>,
        read_params(c, from_payload(StmtPacket(raw_query, next_stmt_id[c]), c, raw_query)))

\* Where a prepare with the steps s can fail.
fail_points(s) ==
    {NoFail, ParseFail("stmt")}
    \cup {IoFail(k) : k \in 1..(Len(s.head) + Len(s.params_read)
                                + Len(s.columns_read) + Len(s.closing))}
    \cup (IF s.params_pkts # <<>> THEN {ParseFail("params")} ELSE {})
    \cup (IF s.columns_pkts # <<>> THEN {ParseFail("columns")} ELSE {})

\* Where one prepare_statement can fail.
prepare_fail_points(c, raw_query) == fail_points(prepare_steps(c, raw_query))

\* prepare_aborted that drops the cache's least recently used entry.
prepare_aborted_evicts(c, t, e) ==
    [ok |-> FALSE, err |-> e, inner |-> None, trace |-> t,
     cache |-> SubSeq(stmt_cache[c], 1, Len(stmt_cache[c]) - 1),
     inserted |-> FALSE, old |-> None]

\* A prepare that returns the error e before the cache insertion, after the
\* transport calls t.
prepare_aborted(c, t, e) ==
    [ok |-> FALSE, err |-> e, inner |-> None, trace |-> t,
     cache |-> stmt_cache[c], inserted |-> FALSE, old |-> None]

\* The result of a prepare with the steps s under the failure fail.
prepare_result(c, s, fail) ==
    LET before == s.head \o s.params_read \o s.columns_read
    IN  CASE fail.kind = "none" ->
               [ok |-> TRUE, err |-> "", inner |-> Some(s.inner_stmt),
                trace |-> before \o s.closing,
                cache |-> s.put.cache, inserted |-> TRUE, old |-> s.put.old]
          [] fail.kind = "io" /\ fail.at <= Len(before) ->
               prepare_aborted(c, FailAt(before, fail.at), "Io")
          [] fail.kind = "io" /\ fail.at > Len(before) ->
               close_failure_result(s.inner_stmt) @@
               [trace |-> FailAt(before \o s.closing, fail.at),
                cache |-> s.put.cache, inserted |-> TRUE, old |-> s.put.old]
          [] fail.kind = "parse" /\ fail.stage = "stmt" ->
               prepare_aborted(c, s.head, "Parse")
          [] fail.kind = "parse" /\ fail.stage = "params" ->
               prepare_aborted(c, s.head \o s.params_pkts, "Parse")
          [] fail.kind = "parse" /\ fail.stage = "columns" ->
               prepare_aborted(c, s.head \o s.params_read \o s.columns_pkts, "Parse")

\* Conn::prepare_statement
prepare_statement(c, raw_query, fail) ==
    prepare_result(c, prepare_steps(c, raw_query), fail)

----------------------------------------------------------------------------
(* Statement resolution *)

\* lookup_or_prepare without the cache lookup: every call prepares.
lookup_always_prepares(c, raw_query, fail) ==
    prepare_statement(c, raw_query, fail) @@ [hit |-> FALSE]

\* A lookup that found the cached entry.
lookup_hit(found) ==
    [ok |-> TRUE, err |-> "", inner |-> found.stmt, trace |-> <<>>,
     cache |-> found.cache, inserted |-> FALSE, old |-> None, hit |-> TRUE]

\* The body of get_statement after info(): the cached entry, else a prepare.
lookup_or_prepare(c, raw_query, fail) ==
    IF get_cached_stmt(stmt_cache[c], raw_query).stmt.some
    THEN lookup_hit(get_cached_stmt(stmt_cache[c], raw_query))
    ELSE prepare_statement(c, raw_query, fail) @@ [hit |-> FALSE]

\* Parameter sets
NoParams == [tag |-> "", vals |-> <<>>, map |-> <<>>]

\* A parameter set as a call record keeps it: the values of a set whose length
\* is beyond the `supplied` field's range are left out.
Recorded(ps) == IF Len(ps.vals) >= U16_RANGE THEN [ps EXCEPT !.vals = <<>>] ELSE ps

\* The record of one call: its input (len is the length of the Positional set
\* given), its result, the transport calls it made and the values it handed to
\* the execute-request builder (bound).
Call(op, c, like, ps, out) ==
    [op |-> op, conn |-> c, like |-> like, params |-> Recorded(ps), len |-> Len(ps.vals),
     ok |-> out.ok, err |-> out.err, required |-> out.required, supplied |-> out.supplied,
     stmt |-> out.stmt, trace |-> out.trace, hit |-> out.hit, inserted |-> out.inserted,
     old |-> out.old, iters |-> out.iters, bound |-> out.bound]

\* Fields of a call record that the call does not set.
Blank ==
    [ok |-> TRUE, err |-> "", required |-> 0, supplied |-> 0, stmt |-> None,
     trace |-> <<>>, hit |-> FALSE, inserted |-> FALSE, old |-> None, iters |-> 0,
     bound |-> <<>>]

\* The number of statements the server has prepared.
PreparedCount == next_stmt_id[1] + next_stmt_id[2] - 2

\* get_statement from the result out of lookup_or_prepare on: the Statement
\* built from it and the state the call leaves behind.
get_statement_returns(c, stmt_like, named_params, out) ==
    /\ stmt_cache' = [stmt_cache EXCEPT ![c] = out.cache]
    /\ next_stmt_id' = [next_stmt_id EXCEPT ![c] = @ + AssignedIds(out.trace)]
    /\ prepared' = IF out.inserted THEN prepared \cup {out.cache[1]} ELSE prepared
    /\ closed' = [closed EXCEPT ![c] = @ \cup ClosedIds(out.trace)]
    /\ evicted' = [evicted EXCEPT ![c] =
                     IF out.old.some THEN @ \cup {id(Unwrap(out.old))} ELSE @]
    /\ last' = Call("get_statement", c, stmt_like, NoParams,
                    [ok |-> out.ok, err |-> out.err,
                     stmt |-> IF out.ok
                              THEN Some(Statement_new(Unwrap(out.inner), named_params))
                              ELSE None,
                     trace |-> out.trace, hit |-> out.hit,
                     inserted |-> out.inserted,
                     old |-> out.old] @@ Blank)

\* get_statement from the result i of info() on.
get_statement_with(c, stmt_like, fail, i) ==
    IF ~i.ok
    THEN /\ fail = NoFail
         /\ last' = Call("get_statement", c, stmt_like, NoParams,
                         [ok |-> FALSE, err |-> "Parse"] @@ Blank)
         /\ UNCHANGED <<stmt_cache, next_stmt_id, prepared, closed, evicted>>
    ELSE /\ IF get_cached_stmt(stmt_cache[c], i.raw_query).stmt.some
            THEN fail = NoFail
            ELSE fail \in prepare_fail_points(c, i.raw_query)
         /\ get_statement_returns(c, stmt_like, i.named_params,
                                  lookup_or_prepare(c, i.raw_query, fail))

\* Conn::get_statement
get_statement(c, stmt_like, fail) ==
    get_statement_with(c, stmt_like, fail, info(stmt_like))

----------------------------------------------------------------------------
(* Values and parameter sets *)

\* Value::Bytes of the given length; the bytes are those at offsets 0..len-1.
Bytes(len) == [bytes |-> TRUE, len |-> len]

\* A value that is not Value::Bytes (Value::Int).
NonBytes == [bytes |-> FALSE, len |-> 0]

Positional(vals) == [tag |-> "Positional", vals |-> vals, map |-> <<>>]

Named(map) == [tag |-> "Named", vals |-> <<>>, map |-> map]

Empty == [tag |-> "Empty", vals |-> <<>>, map |-> <<>>]

\* into_positional that takes the values in the order of the mapping's keys.
into_positional_map_order(ps, named_params) ==
    LET keys == SelectSeq(<<"a", "b">>,
                    LAMBDA n : \E k \in 1..Len(named_params) : named_params[k] = n)
    IN  IF \E k \in 1..Len(named_params) : named_params[k] \notin DOMAIN ps.map
        THEN [ok |-> FALSE, params |-> NoParams]
        ELSE [ok |-> TRUE, params |-> Positional([k \in 1..Len(keys) |-> ps.map[keys[k]]])]

\* into_positional that hands the Named set back as it is.
into_positional_unconverted(ps, named_params) == [ok |-> TRUE, params |-> ps]

\* Params::into_positional (mysql_common): the values of the given names, in
\* the order of the names; fails at the first name the mapping lacks.
into_positional(ps, named_params) ==
    IF \E k \in 1..Len(named_params) : named_params[k] \notin DOMAIN ps.map
    THEN [ok |-> FALSE, params |-> NoParams]
    ELSE [ok |-> TRUE,
          params |-> Positional([k \in 1..Len(named_params) |-> ps.map[named_params[k]]])]

----------------------------------------------------------------------------
(* Long data *)

\* The largest chunk of one COM_STMT_SEND_LONG_DATA command.
ChunkLimit == MAX_PAYLOAD_LEN - 6

\* slice::chunks(size) over len bytes from offset off: <<offset, length>> pairs.
RECURSIVE chunks(_, _, _)
chunks(off, len, size) ==
    IF off >= len THEN <<>>
    ELSE <<<<off, Min(size, len - off)>>>> \o chunks(off + size, len, size)

\* long_data_chunks without the empty chunk of an empty value.
long_data_chunks_unchained(len) == chunks(0, len, ChunkLimit)

\* bytes.chunks(MAX_PAYLOAD_LEN - 6).chain(if bytes.is_empty() { Some(&[]) } else { None })
long_data_chunks(len) ==
    chunks(0, len, ChunkLimit) \o (IF len = 0 THEN <<<<0, 0>>>> ELSE <<>>)

\* send_long_data that tags every command with the index 0.
send_long_data_index_zero(statement_id, values) ==
    Concat([k \in 1..Len(values) |->
        IF values[k].bytes
        THEN LET cs == long_data_chunks(values[k].len)
             IN  [j \in 1..Len(cs) |->
                     Event("COM_STMT_SEND_LONG_DATA", "", statement_id, 0, cs[j][1], cs[j][2])]
        ELSE <<>>])

\* Conn::send_long_data: the commands written when no write fails.
send_long_data(statement_id, values) ==
    Concat([k \in 1..Len(values) |->
        IF values[k].bytes
        THEN LET cs == long_data_chunks(values[k].len)
             IN  [j \in 1..Len(cs) |->
                     Event("COM_STMT_SEND_LONG_DATA", "", statement_id, k - 1, cs[j][1], cs[j][2])]
        ELSE <<>>])

----------------------------------------------------------------------------
(* Execute *)

\* Value::bin_len (mysql_common): the size of a value in the execute payload.
bin_len(v) ==
    IF ~v.bytes THEN 8
    ELSE v.len + (CASE v.len < 251 -> 1 [] v.len < 65536 -> 3 [] v.len < 16777216 -> 4 [] OTHER -> 9)

RECURSIVE data_len(_)
data_len(values) ==
    IF values = <<>> THEN 0 ELSE bin_len(Head(values)) + data_len(Tail(values))

\* ComStmtExecuteRequestBuilder::new(id).build(values) (mysql_common): the
\* execute command, and whether the values are to go as long data: they do when
\* the payload would exceed MAX_PAYLOAD_LEN.
build(statement_id, values) ==
    [body |-> Event("COM_STMT_EXECUTE", "", statement_id, 0, 0, Len(values)),
     as_long_data |->
        /\ values # <<>>
        /\ 10 + ((Len(values) + 7) \div 8) + 1 + 2 * Len(values) + data_len(values)
             > MAX_PAYLOAD_LEN]

\* StmtParamsMismatch found only after the execute payload was written.
StmtParamsMismatch_after_write(statement, len) ==
    [ok |-> FALSE, err |-> "StmtParamsMismatch",
     trace |-> <<build(id(statement.inner), <<>>).body>>,
     required |-> num_params(statement.inner), supplied |-> len % U16_RANGE]

\* DriverError::StmtParamsMismatch { required, supplied: len as u16 }
StmtParamsMismatch(statement, len) ==
    [ok |-> FALSE, err |-> "StmtParamsMismatch", trace |-> <<>>,
     required |-> num_params(statement.inner), supplied |-> len % U16_RANGE]

\* execute_positional with the execute payload written first.
execute_positional_body_first(statement, values) ==
    LET b == build(id(statement.inner), values)
    IN  [ok |-> TRUE, err |-> "", required |-> 0, supplied |-> 0, bound |-> values,
         trace |-> <<b.body>> \o
                   (IF b.as_long_data
                    THEN send_long_data(id(statement.inner), values) ELSE <<>>)]

\* The Positional arm past the arity check: long data, then the execute payload.
execute_positional(statement, values) ==
    LET b == build(id(statement.inner), values)
    IN  [ok |-> TRUE, err |-> "", required |-> 0, supplied |-> 0, bound |-> values,
         trace |-> (IF b.as_long_data
                    THEN send_long_data(id(statement.inner), values) ELSE <<>>)
                   \o <<b.body>>]

\* NamedParamsForPositionalQuery reported only when the counts agree.
NamedParamsForPositionalQuery_count_first(statement, ps) ==
    IF num_params(statement.inner) # Cardinality(DOMAIN ps.map)
    THEN StmtParamsMismatch(statement, Cardinality(DOMAIN ps.map))
    ELSE [ok |-> FALSE, err |-> "NamedParamsForPositionalQuery", trace |-> <<>>,
          required |-> 0, supplied |-> 0]

\* The Named arm on a statement without a name list:
\* `return Err(DriverError::NamedParamsForPositionalQuery.into())`
NamedParamsForPositionalQuery(statement, ps) ==
    [ok |-> FALSE, err |-> "NamedParamsForPositionalQuery", trace |-> <<>>,
     required |-> 0, supplied |-> 0]

\* execute_empty without the check of the declared count.
execute_empty_unchecked(statement) ==
    [ok |-> TRUE, err |-> "", required |-> 0, supplied |-> 0,
     trace |-> <<build(id(statement.inner), <<>>).body>>]

\* The Params::Empty arm.
execute_empty(statement) ==
    IF num_params(statement.inner) > 0
    THEN StmtParamsMismatch(statement, 0)
    ELSE [ok |-> TRUE, err |-> "", required |-> 0, supplied |-> 0,
          trace |-> <<build(id(statement.inner), <<>>).body>>]

\* The loop of execute_statement over the parameter set's tag, when no write
\* fails; iters counts the passes through the loop, which is followed for at
\* most MaxIters passes ("Loop" marks a call that has not ended by then).
RECURSIVE execute_loop(_, _, _)
execute_loop(statement, ps, iters) ==
    CASE iters > MaxIters ->
           [ok |-> FALSE, err |-> "Loop", trace |-> <<>>,
            required |-> 0, supplied |-> 0, iters |-> iters]
      [] iters <= MaxIters /\ ps.tag = "Positional" ->
           (IF num_params(statement.inner) # Len(ps.vals)
            THEN StmtParamsMismatch(statement, Len(ps.vals))
            ELSE execute_positional(statement, ps.vals)) @@ [iters |-> iters]
      [] iters <= MaxIters /\ ps.tag = "Named" ->
           IF ~statement.named_params.some
           THEN NamedParamsForPositionalQuery(statement, ps) @@ [iters |-> iters]
           ELSE LET conv == into_positional(ps, Unwrap(statement.named_params))
                IN  IF conv.ok
                    THEN execute_loop(statement, conv.params, iters + 1)
                    ELSE [ok |-> FALSE, err |-> "MissingNamedParameter", trace |-> <<>>,
                          required |-> 0, supplied |-> 0, iters |-> iters]
      [] iters <= MaxIters /\ ps.tag = "Empty" ->
           execute_empty(statement) @@ [iters |-> iters]

\* Where one execute_statement can fail: at each of its writes.
execute_fail_points(statement, ps) ==
    {NoFail} \cup {IoFail(k) : k \in 1..Len(execute_loop(statement, ps, 1).trace)}

\* Conn::execute_statement
execute_statement(c, statement, ps, fail) ==
    LET out == execute_loop(statement, ps, 1)
        res == IF fail = NoFail THEN out
               ELSE [out EXCEPT !.ok = FALSE, !.err = "Io",
                                !.trace = FailAt(out.trace, fail.at)]
    IN  /\ statement \in Handles(Texts)
        /\ fail \in execute_fail_points(statement, ps)
        /\ last' = Call("execute_statement", c, StrLike(""), ps,
                        res @@ [stmt |-> Some(statement)] @@ Blank)
        /\ UNCHANGED <<stmt_cache, next_stmt_id, prepared, closed, evicted>>

\* Conn::close_statement, called by the owner of a handle.
close_statement_call(c, stmt_id, fail) ==
    LET t == IF fail = NoFail THEN close_statement(stmt_id)
             ELSE FailAt(close_statement(stmt_id), fail.at)
    IN  /\ fail \in {NoFail, IoFail(1)}
        /\ closed' = [closed EXCEPT ![c] = @ \cup ClosedIds(t)]
        /\ last' = Call("close_statement", c, StrLike(""), NoParams,
                        [ok |-> fail = NoFail, err |-> IF fail = NoFail THEN "" ELSE "Io",
                         trace |-> t, required |-> stmt_id] @@ Blank)
        /\ UNCHANGED <<stmt_cache, next_stmt_id, prepared, evicted>>

----------------------------------------------------------------------------
(* Inputs *)

\* The parameter counts the server declares.
DeclaredCounts == {server_num_params(parse_named_params(t).raw_query) : t \in Texts}

ByteLens == {0, 1} \cup UNION {{k * ChunkLimit, k * ChunkLimit + 1} : k \in 1..MaxChunks}

Values == {NonBytes} \cup {Bytes(n) : n \in ByteLens}

\* A Vec of len values none of which is Value::Bytes.
PlainVec(len) == [k \in 1..len |-> NonBytes]

\* Positional sets whose length does not fit the 16-bit `supplied` field.
WideParams == {Positional(PlainVec(U16_RANGE + n)) : n \in DeclaredCounts}

\* Positional sets of up to one value more than any statement declares, and
\* mappings of names to values that tell the names apart.
PlainParams ==
    {Empty} \cup {Positional(PlainVec(n)) : n \in DeclaredCounts \cup {n + 1 : n \in DeclaredCounts}}
    \cup {Named(m) : m \in UNION {[D -> {NonBytes, Bytes(1)}] : D \in SUBSET Names}}

\* Positional sets of as many values as a statement declares, byte values of
\* every length among them.
BytesParams ==
    {Positional(vs) : vs \in UNION {[1..n -> Values] : n \in DeclaredCounts \ {0}}}

----------------------------------------------------------------------------
(* The specifications *)

Init ==
    /\ stmt_cache = [c \in Conns |-> <<>>]
    /\ next_stmt_id = [c \in Conns |-> 1]
    /\ prepared = {}
    /\ closed = [c \in Conns |-> {}]
    /\ evicted = [c \in Conns |-> {}]
    /\ last = Call("new", 1, StrLike(""), NoParams, Blank)

\* Where get_statement on connection c can fail.
get_statement_fail_points(c, stmt_like) ==
    IF info(stmt_like).ok
       /\ ~get_cached_stmt(stmt_cache[c], info(stmt_like).raw_query).stmt.some
    THEN prepare_fail_points(c, info(stmt_like).raw_query)
    ELSE {NoFail}

\* get_statement on connection c prepares no statement beyond the max-th one
\* of the server: it is served from the cache, or fails in info(), or the
\* server has prepared fewer.
WithinStmts(c, stmt_like, max) ==
    \/ ~info(stmt_like).ok
    \/ get_cached_stmt(stmt_cache[c], info(stmt_like).raw_query).stmt.some
    \/ PreparedCount < max

LifecycleTexts == {"SELECT 1", "SELECT ?", "SELECT :a", "DO ?, ?", "SELECT :"}

LifecycleParams == {Empty, Positional(<<NonBytes>>)}

\* The life cycle of the statements of the connections: every transport call
\* of a prepare or an execute fails or not.
Next ==
    \/ \E c \in Conns, text \in LifecycleTexts :
          \E fail \in get_statement_fail_points(c, StrLike(text)) :
              WithinStmts(c, StrLike(text), MaxStmts) /\ get_statement(c, StrLike(text), fail)
    \/ \E c \in Conns, s \in Handles(LifecycleTexts) :
          \E fail \in get_statement_fail_points(c, StatementLike(s)) :
              WithinStmts(c, StatementLike(s), MaxStmts) /\ get_statement(c, StatementLike(s), fail)
    \/ \E c \in Conns, s \in Handles(LifecycleTexts), ps \in LifecycleParams :
          \E fail \in execute_fail_points(s, ps) :
              execute_statement(c, s, ps, fail)

Spec == Init /\ [][Next]_vars

\* The texts whose statements differ in what they bind: in the declared count
\* or in the name list.
BindTexts == Texts \ {"SELECT ?, ?"}

\* Binding of every kind of parameter set to the statements of one connection.
NextBind ==
    \/ \E text \in BindTexts :
          WithinStmts(1, StrLike(text), MaxStmts) /\ get_statement(1, StrLike(text), NoFail)
    \/ \E s \in Handles(BindTexts), ps \in PlainParams :
          \E fail \in execute_fail_points(s, ps) :
              execute_statement(1, s, ps, fail)

SpecBind == Init /\ [][NextBind]_vars

WideTexts == {"SELECT 1", "SELECT ?", "DO ?, ?"}

\* Positional sets of every length class: as declared, one more, and lengths
\* beyond the range of the `supplied` field.
NextWide ==
    \/ \E text \in WideTexts : WithinStmts(1, StrLike(text), MaxStmts) /\ get_statement(1, StrLike(text), NoFail)
    \/ \E s \in Handles(WideTexts), ps \in WideParams \cup {p \in PlainParams : p.tag = "Positional"} :
          \E fail \in execute_fail_points(s, ps) :
              execute_statement(1, s, ps, fail)

SpecWide == Init /\ [][NextWide]_vars

LongDataTexts == {"SELECT ?", "DO ?, ?"}

\* Transmission of byte values of every length: every write fails or not.
NextLong ==
    \/ \E text \in LongDataTexts : WithinStmts(1, StrLike(text), MaxStmts) /\ get_statement(1, StrLike(text), NoFail)
    \/ \E s \in Handles(LongDataTexts), ps \in BytesParams :
          \E fail \in execute_fail_points(s, ps) :
              execute_statement(1, s, ps, fail)

SpecLong == Init /\ [][NextLong]_vars

\* Handles closed by their owner and used afterwards.
NextClose ==
    \/ \E text \in LifecycleTexts : WithinStmts(1, StrLike(text), MaxStmts) /\ get_statement(1, StrLike(text), NoFail)
    \/ \E s \in Handles(LifecycleTexts), fail \in {NoFail, IoFail(1)} :
          close_statement_call(1, id(s.inner), fail)
    \/ \E s \in Handles(LifecycleTexts) : execute_statement(1, s, Empty, NoFail)

SpecClose == Init /\ [][NextClose]_vars

PrepareTexts == {"SELECT 1", "SELECT ?", "DO ?, ?", "SELECT ?, ?"}

\* Prepares of statements of every shape (parameters, columns, both) on both
\* connections: every transport call and every parse fails or not.
NextPrepare ==
    \E c \in Conns, text \in PrepareTexts :
        \E fail \in get_statement_fail_points(c, StrLike(text)) :
            WithinStmts(c, StrLike(text), MaxStmts) /\ get_statement(c, StrLike(text), fail)

SpecPrepare == Init /\ [][NextPrepare]_vars

ReuseTexts == {"SELECT 1", "SELECT :a", "DO ?, ?"}

\* Statements given back to get_statement, on the connection that made them
\* and on the other one, also after their entries were evicted.
NextReuse ==
    \/ \E c \in Conns, text \in ReuseTexts :
          WithinStmts(c, StrLike(text), MaxReuseStmts) /\ get_statement(c, StrLike(text), NoFail)
    \/ \E c \in Conns, s \in Handles(ReuseTexts) :
          \E fail \in get_statement_fail_points(c, StatementLike(s)) :
              WithinStmts(c, StatementLike(s), MaxReuseStmts) /\ get_statement(c, StatementLike(s), fail)

SpecReuse == Init /\ [][NextReuse]_vars

----------------------------------------------------------------------------
(* Properties *)

IsGet == last.op = "get_statement"

IsExecute == last.op = "execute_statement"

\* The raw query the last call resolved (its cache key).
LastQuery == info(last.like).raw_query

\* The statement the last call was given or returned.
LastStmt == Unwrap(last.stmt)

\* The events of the last call's trace that carry the given command.
LastCommands(cmd) == Commands(last.trace, cmd)

\* The last call was a get_statement whose prepare displaced a cache entry, and
\* the write of the displaced entry's COM_STMT_CLOSE failed.
CloseOfEvictedFailed ==
    /\ IsGet
    /\ last.inserted
    /\ last.old.some
    /\ last.trace # <<>>
    /\ last.trace[Len(last.trace)].cmd = "COM_STMT_CLOSE"
    /\ ~last.trace[Len(last.trace)].ok

\* The packets a successful prepare reads for what the server declared.
ExpectedReads(c, inner) ==
    LET e == IF capabilities_contains_DEPRECATE_EOF(c) THEN 0 ELSE 1
    IN  1 + (IF num_params(inner) > 0 THEN num_params(inner) + e ELSE 0)
          + (IF num_columns(inner) > 0 THEN num_columns(inner) + e ELSE 0)

\* C1: two consecutive get_statement calls for the same raw query on one
\* connection, the first of them successful, write one COM_STMT_PREPARE in
\* total when the first had to prepare (none when it was served from the cache
\* itself): the second call is served from the cache, writes no command, reads
\* no packet and returns a Statement with the handle id the first returned.
C1_SecondCallIsCached ==
    [][ ( /\ IsGet /\ last.ok
          /\ last'.op = "get_statement"
          /\ last'.conn = last.conn
          /\ info(last'.like).ok
          /\ info(last'.like).raw_query = LastQuery )
        => ( /\ last'.ok
             /\ last'.hit
             /\ last'.trace = <<>>
             /\ id(Unwrap(last'.stmt).inner) = id(LastStmt.inner)
             /\ Len(Commands(last.trace \o last'.trace, "COM_STMT_PREPARE"))
                  = (IF last.hit THEN 0 ELSE 1) ) ]_vars

\* A second call for a query was served from the cache after the only prepare
\* of the run, under another text than the prepared one's.
C1_Witness ==
    /\ IsGet /\ last.ok /\ last.hit
    /\ last.trace = <<>>
    /\ last.like.kind = "str"
    /\ last.like.text # LastQuery
    /\ PreparedCount = 1
    /\ id(LastStmt.inner) = 1

\* C2: execute_statement with a Positional set of length L on a statement that
\* declares K parameters gets past binding iff L = K, and otherwise fails with
\* StmtParamsMismatch { required: K, supplied: L }.
C2_MismatchReportsLength ==
    (IsExecute /\ last.params.tag = "Positional") =>
        LET K == num_params(LastStmt.inner)
            L == last.len
        IN  /\ (L = K) <=> (last.err # "StmtParamsMismatch")
            /\ (L = K /\ last.ok) => LastCommands("COM_STMT_EXECUTE") # <<>>
            /\ (L # K) => /\ ~last.ok
                          /\ last.required = K
                          /\ last.supplied = L

\* The last call bound a parameter set that the statement cannot take:
\* a wrong count, names for a statement without a name list, a missing name.
BindingError ==
    /\ IsExecute
    /\ LET K  == num_params(LastStmt.inner)
           ps == last.params
       IN  \/ ps.tag = "Positional" /\ last.len # K
           \/ ps.tag = "Empty" /\ K > 0
           \/ ps.tag = "Named" /\ ~LastStmt.named_params.some
           \/ /\ ps.tag = "Named" /\ LastStmt.named_params.some
              /\ \/ \E k \in DOMAIN Unwrap(LastStmt.named_params) :
                       Unwrap(LastStmt.named_params)[k] \notin DOMAIN ps.map
                 \/ Len(Unwrap(LastStmt.named_params)) # K

\* C3: an execute_statement that ends in a binding error has written nothing:
\* it attempted no long-data command and no execute command.
C3_BindingErrorsWriteNothing ==
    BindingError =>
        /\ ~last.ok
        /\ last.err \in {"StmtParamsMismatch", "NamedParamsForPositionalQuery",
                         "MissingNamedParameter"}
        /\ last.trace = <<>>

\* A Named set lacking a declared name was bound to a statement that has a
\* name list.
C3_Witness ==
    /\ IsExecute
    /\ last.params.tag = "Named"
    /\ LastStmt.named_params.some
    /\ \E k \in DOMAIN Unwrap(LastStmt.named_params) :
          Unwrap(LastStmt.named_params)[k] \notin DOMAIN last.params.map
    /\ last.err = "MissingNamedParameter"

\* The StmtInner records created on connection c.
PreparedOn(c) == {inner \in prepared : inner.connection_id = c}

\* C4: a prepare through get_statement writes one COM_STMT_CLOSE exactly when
\* its cache insertion displaced an entry, carrying the displaced entry's
\* handle id, as the last transport call of the prepare, after the whole
\* prepare response was read; entries are displaced only beyond the capacity
\* (the C+1st distinct query displaces one); and no cache entry, hence no cache
\* lookup, ever has a displaced handle id again.
C4_EvictionClosesOnce ==
    /\ (IsGet /\ last.inserted) =>
          LET closes == LastCommands("COM_STMT_CLOSE")
              n      == Len(last.trace)
              new    == stmt_cache[last.conn][1]
          IN  IF last.old.some
              THEN /\ Len(closes) = 1
                   /\ closes[1].id = id(Unwrap(last.old))
                   /\ last.trace[n].cmd = "COM_STMT_CLOSE"
                   /\ Len(Reads(SubSeq(last.trace, 1, n - 1))) = ExpectedReads(last.conn, new)
                   /\ \A k \in 1..(n - 1) : last.trace[k].ok
                   /\ id(Unwrap(last.old)) # id(new)
              ELSE closes = <<>>
    /\ (IsGet /\ ~last.inserted) => LastCommands("COM_STMT_CLOSE") = <<>>
    /\ \A c \in Conns :
          /\ Cardinality(evicted[c]) = Max(0, Cardinality(PreparedOn(c)) - StmtCacheSize)
          /\ \A k \in DOMAIN stmt_cache[c] : id(stmt_cache[c][k]) \notin evicted[c]
    /\ (IsGet /\ last.ok) => id(LastStmt.inner) \notin evicted[last.conn]

\* The prepare of one query more than the cache holds displaced the least
\* recently used entry and wrote its close.
C4_Witness ==
    /\ IsGet /\ last.ok /\ last.inserted /\ last.old.some
    /\ Cardinality(PreparedOn(last.conn)) = StmtCacheSize + 1
    /\ evicted[last.conn] = {id(Unwrap(last.old))}
    /\ closed[last.conn] = evicted[last.conn]

\* C5: when the close of the entry displaced by a prepare fails, the prepare
\* call returns that error, the new entry stays in the cache, and a following
\* get_statement of the same raw query is served from the cache without a
\* COM_STMT_PREPARE.
C5_CloseFailureKeepsEntry ==
    [][ CloseOfEvictedFailed =>
          /\ ~last.ok /\ last.err = "Io"
          /\ get_cached_stmt(stmt_cache[last.conn], LastQuery).stmt.some
          /\ ( /\ last'.op = "get_statement"
               /\ last'.conn = last.conn
               /\ info(last'.like).ok
               /\ info(last'.like).raw_query = LastQuery )
             => /\ last'.ok /\ last'.hit
                /\ Commands(last'.trace, "COM_STMT_PREPARE") = <<>>
                /\ last'.trace = <<>> ]_vars

\* The close of a displaced entry failed, and the query just prepared is found
\* in the cache.
C5_Witness ==
    /\ CloseOfEvictedFailed
    /\ get_cached_stmt(stmt_cache[last.conn], LastQuery).stmt.some

\* C6 as stated: when only the close of the displaced entry failed, the caller
\* of get_statement still receives the newly prepared statement.
C6_CallerReceivesStatement ==
    CloseOfEvictedFailed => last.stmt.some

\* C6 as amended: when only the close of the displaced entry failed, nothing
\* the prepare did is undone (the statement stays prepared under the handle id
\* the server assigned, it had been handed to cache_stmt before the close was
\* attempted, and the failed close is the call's last transport call), but the
\* caller receives the error of the close and no statement.
C6_ErrorInsteadOfStatement ==
    CloseOfEvictedFailed =>
        LET n == Len(last.trace) IN
        /\ ~last.ok /\ last.err = "Io"
        /\ ~last.stmt.some
        /\ last.inserted
        /\ last.trace[1].cmd = "COM_STMT_PREPARE"
        /\ \A k \in 1..(n - 1) : last.trace[k].ok /\ last.trace[k].cmd # "COM_STMT_CLOSE"
        /\ \E inner \in PreparedOn(last.conn) :
              /\ inner.raw_query = LastQuery
              /\ id(inner) = next_stmt_id[last.conn] - 1
              /\ id(inner) # last.trace[n].id

\* A prepare that displaced the first statement of its connection returned the
\* error of the failed close instead of the third statement.
C6_Witness ==
    /\ CloseOfEvictedFailed
    /\ ~last.stmt.some
    /\ last.trace[Len(last.trace)].id = 1
    /\ next_stmt_id[last.conn] = 4

\* The long-data commands of the last call for the parameter at zero-based
\* position i.
LongDataFor(i) ==
    SelectSeq(last.trace, LAMBDA e : e.cmd = "COM_STMT_SEND_LONG_DATA" /\ e.idx = i)

\* The last call was an execute_statement that sent its values as long data
\* and whose writes all succeeded.
SentLongData ==
    /\ IsExecute /\ last.ok
    /\ LastCommands("COM_STMT_SEND_LONG_DATA") # <<>>

\* C7: a byte value of N bytes sent by send_long_data goes out in ceil(N / M)
\* COM_STMT_SEND_LONG_DATA commands when N > 0, and in one command with an empty
\* chunk when N = 0, for M = MAX_PAYLOAD_LEN - 6; no chunk is longer than M; and
\* the chunks, in the order written, are consecutive ranges of the value that
\* start at its first byte and end at its last.
C7_ChunksCoverValue ==
    SentLongData =>
        \A k \in DOMAIN last.params.vals :
            last.params.vals[k].bytes =>
                LET N  == last.params.vals[k].len
                    M  == 16777215 - 6
                    cs == LongDataFor(k - 1)
                IN  /\ Len(cs) = (IF N = 0 THEN 1 ELSE (N + M - 1) \div M)
                    /\ \A j \in DOMAIN cs : cs[j].len <= M
                    /\ cs[1].off = 0
                    /\ \A j \in 1..(Len(cs) - 1) : cs[j + 1].off = cs[j].off + cs[j].len
                    /\ cs[Len(cs)].off + cs[Len(cs)].len = N
                    /\ (N > 0) => \A j \in DOMAIN cs : cs[j].len > 0

\* An empty byte value went out in one empty chunk, and a value of more than
\* two full chunks in three.
C7_Witness ==
    /\ SentLongData
    /\ Len(last.params.vals) = 2
    /\ last.params.vals[1] = Bytes(0)
    /\ last.params.vals[2] = Bytes(2 * (16777215 - 6) + 1)
    /\ Len(LongDataFor(0)) = 1
    /\ Len(LongDataFor(1)) = 3

\* C8: in an execute_statement, every long-data command is written before the
\* execute payload, which is the call's last write; and when a long-data write
\* fails, no execute payload is written and the call returns the error.
C8_LongDataBeforeExecute ==
    IsExecute =>
        LET n == Len(last.trace) IN
        /\ \A k \in 1..n :
              /\ last.trace[k].cmd = "COM_STMT_EXECUTE" => k = n
              /\ k < n => last.trace[k].cmd = "COM_STMT_SEND_LONG_DATA" /\ last.trace[k].ok
        /\ (\E k \in 1..n : last.trace[k].cmd = "COM_STMT_SEND_LONG_DATA" /\ ~last.trace[k].ok)
              => /\ LastCommands("COM_STMT_EXECUTE") = <<>>
                 /\ ~last.ok /\ last.err = "Io"
        /\ last.ok => /\ n >= 1
                      /\ last.trace[n].cmd = "COM_STMT_EXECUTE"
                      /\ \A k \in DOMAIN last.params.vals :
                            (last.params.vals[k].bytes /\ n > 1) => LongDataFor(k - 1) # <<>>

\* The second of an execute's long-data writes failed.
C8_Witness ==
    /\ IsExecute /\ ~last.ok /\ last.err = "Io"
    /\ Len(last.trace) = 2
    /\ last.trace[1].cmd = "COM_STMT_SEND_LONG_DATA" /\ last.trace[1].ok
    /\ last.trace[2].cmd = "COM_STMT_SEND_LONG_DATA" /\ ~last.trace[2].ok

\* C9: once a COM_STMT_CLOSE for handle id h was written on a connection, no
\* execute or long-data command carrying h is written on that connection, also
\* when a caller passes execute_statement a Statement of that connection that
\* still references h.
C9_NoUseAfterClose ==
    (IsExecute /\ LastStmt.inner.connection_id = last.conn) =>
        \A k \in DOMAIN last.trace :
            last.trace[k].cmd \in {"COM_STMT_EXECUTE", "COM_STMT_SEND_LONG_DATA"}
                => last.trace[k].id \notin closed[last.conn]

\* C10: execute_statement on a connection other than the one the Statement was
\* created on is rejected with an error and writes no execute or long-data
\* command carrying the foreign handle id.
C10_ForeignHandleRejected ==
    (IsExecute /\ LastStmt.inner.connection_id # last.conn) =>
        /\ ~last.ok
        /\ \A k \in DOMAIN last.trace :
              last.trace[k].cmd \notin {"COM_STMT_EXECUTE", "COM_STMT_SEND_LONG_DATA"}

\* The Statement the last get_statement was given as its statement-like input.
GivenStmt == Unwrap(last.like.stmt)

\* The last call was a get_statement on a Statement.
IsGetOfStatement == IsGet /\ last.like.kind = "Statement"

\* C11 as stated: get_statement on a Statement makes no transport call in any
\* cache state and returns a handle with the name list and the metadata (the
\* handle id) of the Statement given.
C11_HandleUsedDirectly ==
    IsGetOfStatement =>
        /\ last.ok
        /\ last.trace = <<>>
        /\ LastStmt = GivenStmt

\* C11 as amended: get_statement on a Statement parses nothing (it cannot fail
\* before the first transport call) and resolves the Statement's raw query as
\* it resolves a text: served from the cache it makes no transport call;
\* otherwise it prepares the raw query again and, on success, returns metadata
\* with a newly assigned handle id on this connection. The returned handle has
\* the name list and the raw query of the Statement given.
C11_HandleResolvedThroughCache ==
    IsGetOfStatement =>
        /\ last.ok \/ last.trace # <<>>
        /\ last.hit => last.ok /\ last.trace = <<>>
        /\ ~last.hit =>
              /\ last.trace[1].cmd = "COM_STMT_PREPARE"
              /\ last.trace[1].q = GivenStmt.inner.raw_query
              /\ last.ok => /\ id(LastStmt.inner) = next_stmt_id[last.conn] - 1
                            /\ LastStmt.inner # GivenStmt.inner
        /\ last.ok =>
              /\ LastStmt.named_params = GivenStmt.named_params
              /\ LastStmt.inner.raw_query = GivenStmt.inner.raw_query
              /\ LastStmt.inner.connection_id = last.conn
              /\ LastStmt.inner = stmt_cache[last.conn][1]

\* A named Statement whose entry its own connection had evicted was given to
\* get_statement there, which prepared its query again under another id.
C11_Witness ==
    /\ IsGetOfStatement
    /\ GivenStmt.inner.connection_id = last.conn
    /\ id(GivenStmt.inner) \in evicted[last.conn]
    /\ GivenStmt.named_params.some
    /\ last.ok /\ ~last.hit
    /\ id(LastStmt.inner) # id(GivenStmt.inner)

\* C12: a prepare that fails before the cache insertion leaves the statement
\* cache as it was (nothing inserted, nothing evicted) and writes no
\* COM_STMT_CLOSE.
C12_FailedPrepareKeepsCache ==
    [][ (last'.op = "get_statement" /\ ~last'.ok /\ ~last'.inserted /\ last'.trace # <<>>)
        => ( /\ stmt_cache' = stmt_cache
             /\ prepared' = prepared
             /\ evicted' = evicted
             /\ closed' = closed
             /\ Commands(last'.trace, "COM_STMT_CLOSE") = <<>> ) ]_vars

\* A prepare on a connection whose cache is full failed at the parse of a
\* column definition, after the statement packet and the definitions were read.
C12_Witness ==
    /\ IsGet /\ ~last.ok /\ ~last.inserted
    /\ last.err = "Parse"
    /\ Len(last.trace) >= 3
    /\ Len(stmt_cache[last.conn]) = StmtCacheSize

\* C13: execute_statement with a Named set on a Statement without a name list
\* fails with NamedParamsForPositionalQuery, whatever the declared parameter
\* count and the mapping are, also where the counts disagree; nothing is
\* written.
C13_NamedOnPositionalRejected ==
    (IsExecute /\ last.params.tag = "Named" /\ ~LastStmt.named_params.some) =>
        /\ ~last.ok
        /\ last.err = "NamedParamsForPositionalQuery"
        /\ last.trace = <<>>
        /\ last.iters = 1

\* A mapping of one name was given for a statement that declares two
\* parameters and has no name list.
C13_Witness ==
    /\ IsExecute /\ last.params.tag = "Named"
    /\ ~LastStmt.named_params.some
    /\ num_params(LastStmt.inner) = 2
    /\ DOMAIN last.params.map = {"a"}
    /\ last.err = "NamedParamsForPositionalQuery"

\* The last call was given a Named set that has a value for every name of the
\* Statement's name list.
NamedComplete ==
    /\ IsExecute /\ last.params.tag = "Named"
    /\ LastStmt.named_params.some
    /\ \A k \in 1..Len(Unwrap(LastStmt.named_params)) :
          Unwrap(LastStmt.named_params)[k] \in DOMAIN last.params.map

\* C14: a Named set with a value for every name n1..nk of the Statement's name
\* list is bound as map[n1], ..., map[nk] and then checked as a Positional set:
\* the execute payload is written iff k is the declared parameter count, and
\* otherwise StmtParamsMismatch { required: declared count, supplied: k } is
\* returned.
C14_NamedBoundInNameOrder ==
    NamedComplete =>
        LET names == Unwrap(LastStmt.named_params)
            k     == Len(names)
            K     == num_params(LastStmt.inner)
        IN  /\ last.iters = 2
            /\ (k = K) =>
                  /\ last.bound = [i \in 1..k |-> last.params.map[names[i]]]
                  /\ last.err # "StmtParamsMismatch"
                  /\ Len(LastCommands("COM_STMT_EXECUTE")) = 1
                  /\ LastCommands("COM_STMT_EXECUTE")[1].len = k
                  /\ last.ok => last.trace[Len(last.trace)].cmd = "COM_STMT_EXECUTE"
            /\ (k # K) =>
                  /\ ~last.ok /\ last.err = "StmtParamsMismatch"
                  /\ last.required = K /\ last.supplied = k
                  /\ last.trace = <<>>

\* A mapping with different values for a and b was bound for the name list
\* <<"b", "a">>: the value of b first.
C14_Witness ==
    /\ NamedComplete /\ last.ok
    /\ Unwrap(LastStmt.named_params) = <<"b", "a">>
    /\ last.params.map["a"] # last.params.map["b"]
    /\ last.bound = <<last.params.map["b"], last.params.map["a"]>>

\* The metadata records a successful prepare returned or a cache holds.
KnownMetadata ==
    prepared
    \cup UNION {{stmt_cache[c][k] : k \in 1..Len(stmt_cache[c])} : c \in Conns}
    \cup (IF IsGet /\ last.ok THEN {LastStmt.inner} ELSE {})

\* C15: every metadata record a successful prepare returned or a cache holds
\* has as many parameter descriptors as the server's prepare response declared
\* parameters and as many column descriptors as it declared result columns; a
\* declared count of 0 (no descriptors attached) and an attached empty list
\* both show as the empty slice.
C15_DescriptorsMatchCounts ==
    \A inner \in KnownMetadata :
        /\ Len(params(inner)) = num_params(inner)
        /\ Len(columns(inner)) = num_columns(inner)
        /\ num_params(inner) = 0 => ~inner.params.some /\ params(inner) = <<>>
        /\ num_columns(inner) = 0 => ~inner.columns.some /\ columns(inner) = <<>>
        /\ params(with_params(inner, <<>>)) = <<>>
        /\ columns(with_columns(inner, <<>>)) = <<>>

\* A statement with two parameters and no result column was prepared and one
\* with a result column and no parameter is cached.
C15_Witness ==
    /\ IsGet /\ last.ok /\ ~last.hit
    /\ num_params(LastStmt.inner) = 2 /\ num_columns(LastStmt.inner) = 0
    /\ Len(params(LastStmt.inner)) = 2
    /\ \E inner \in KnownMetadata : num_params(inner) = 0 /\ Len(columns(inner)) = 1

\* The reads of a trace, by the kind of packet read.
ReadKinds(t) == [k \in 1..Len(Reads(t)) |-> Reads(t)[k].q]

\* n reads of the kind given.
Repeat(kind, n) == [k \in 1..n |-> kind]

\* The reads of one group of definitions: none for a declared count of 0, else
\* as many column definitions and the EOF marker where the capabilities ask it.
GroupReads(c, n) ==
    IF n = 0 THEN <<>>
    ELSE Repeat("column_def", n) \o
         (IF capabilities_contains_DEPRECATE_EOF(c) THEN <<>> ELSE <<"eof">>)

\* C16: a successful prepare with P declared parameters and R declared result
\* columns reads 1 + (P > 0 ? P + e : 0) + (R > 0 ? R + e : 0) packets, e = 1
\* iff the capabilities lack CLIENT_DEPRECATE_EOF: the statement packet, the
\* group of the parameters, then the group of the result columns; a declared
\* count of 0 reads nothing for its group.
C16_PrepareReads ==
    (IsGet /\ last.ok /\ ~last.hit) =>
        /\ Len(Reads(last.trace)) = ExpectedReads(last.conn, LastStmt.inner)
        /\ ReadKinds(last.trace) =
              <<"stmt">> \o GroupReads(last.conn, num_params(LastStmt.inner))
                         \o GroupReads(last.conn, num_columns(LastStmt.inner))
        /\ last.trace[1].cmd = "COM_STMT_PREPARE"
        /\ \A k \in 2..(1 + ExpectedReads(last.conn, LastStmt.inner)) :
              last.trace[k].cmd = "read_packet"

\* A statement with two parameters and one result column was prepared on the
\* connection that reads EOF markers: seven packets.
C16_Witness ==
    /\ IsGet /\ last.ok /\ ~last.hit
    /\ ~capabilities_contains_DEPRECATE_EOF(last.conn)
    /\ num_params(LastStmt.inner) = 2 /\ num_columns(LastStmt.inner) = 1
    /\ ReadKinds(last.trace) = <<"stmt", "column_def", "column_def", "eof", "column_def", "eof">>

\* C17: close_statement(id) writes one COM_STMT_CLOSE carrying id and reads no
\* packet, called by the owner of a handle or by prepare_statement for the
\* entry its insertion displaced (a prepare that displaced none writes no
\* close); the close leaves the statement cache as it is: as it was for the
\* owner's call, as cache_stmt left it for the prepare.
C17_CloseWritesOneCommand ==
    [][ /\ (last'.op = "close_statement") =>
              /\ stmt_cache' = stmt_cache
              /\ Len(last'.trace) = 1
              /\ last'.trace[1].cmd = "COM_STMT_CLOSE"
              /\ last'.trace[1].id = last'.required
        /\ (last'.op = "get_statement" /\ last'.inserted) =>
              LET c == last'.conn
                  n == Len(last'.trace)
                  e == ExpectedReads(c, stmt_cache'[c][1])
              IN  /\ stmt_cache'[c] = cache_stmt(stmt_cache[c], stmt_cache'[c][1]).cache
                  /\ Len(Reads(last'.trace)) = e
                  /\ IF last'.old.some
                     THEN /\ n = e + 2
                          /\ last'.trace[n].cmd = "COM_STMT_CLOSE"
                          /\ last'.trace[n].id = id(Unwrap(last'.old))
                          /\ Len(Commands(last'.trace, "COM_STMT_CLOSE")) = 1
                     ELSE /\ n = e + 1
                          /\ Commands(last'.trace, "COM_STMT_CLOSE") = <<>> ]_vars

\* The owner of a handle closed it on a connection whose cache is full and has
\* displaced an entry before.
C17_Witness ==
    /\ last.op = "close_statement" /\ last.ok
    /\ Len(stmt_cache[last.conn]) = StmtCacheSize
    /\ evicted[last.conn] # {}
    /\ last.required \in closed[last.conn]

\* C18: execute_statement with Params::Empty and with a Positional set of no
\* values end alike: on a statement that declares parameters with
\* StmtParamsMismatch { required: declared count, supplied: 0 } and nothing
\* written, else with one COM_STMT_EXECUTE of no values and no long data.
C18_EmptyIsPositionalOfNone ==
    (IsExecute /\ (last.params.tag = "Empty" \/ (last.params.tag = "Positional" /\ last.len = 0))) =>
        LET K == num_params(LastStmt.inner) IN
        /\ (K > 0) => /\ ~last.ok /\ last.err = "StmtParamsMismatch"
                      /\ last.required = K /\ last.supplied = 0
                      /\ last.trace = <<>>
        /\ (K = 0) => /\ last.err \in {"", "Io"}
                      /\ Len(last.trace) = 1
                      /\ last.trace[1].cmd = "COM_STMT_EXECUTE"
                      /\ last.trace[1].id = id(LastStmt.inner)
                      /\ last.trace[1].len = 0
        /\ last.iters = 1 /\ last.bound = <<>>
        /\ (execute_loop(LastStmt, Empty, 1) @@ Blank)
              = (execute_loop(LastStmt, Positional(<<>>), 1) @@ Blank)

\* Params::Empty was given for a statement that declares two parameters.
C18_Witness ==
    /\ IsExecute /\ last.params.tag = "Empty"
    /\ num_params(LastStmt.inner) = 2
    /\ last.err = "StmtParamsMismatch" /\ last.supplied = 0

\* The zero-based positions of the byte values of a list of values.
BytePositions(values) == {k - 1 : k \in {j \in 1..Len(values) : values[j].bytes}}

\* C19: an execute of positional values writes no long-data command unless the
\* builder signals long data; if it does, the long-data commands carry the
\* statement's handle id and the zero-based positions of the byte values: of
\* each of them, of no other value, in increasing position, the chunks of one
\* value one after the other from its first byte on.
C19_LongDataForByteValues ==
    (IsExecute /\ last.params.tag = "Positional"
        /\ last.len = num_params(LastStmt.inner)) =>
        LET b  == build(id(LastStmt.inner), last.params.vals)
            ld == LastCommands("COM_STMT_SEND_LONG_DATA")
        IN  /\ ~b.as_long_data => ld = <<>>
            /\ \A j \in DOMAIN ld :
                  /\ ld[j].id = id(LastStmt.inner)
                  /\ ld[j].idx \in BytePositions(last.params.vals)
            /\ ld # <<>> => ld[1].off = 0
            /\ \A j \in 1..(Len(ld) - 1) :
                  \/ ld[j + 1].idx = ld[j].idx /\ ld[j + 1].off = ld[j].off + ld[j].len
                  \/ ld[j + 1].idx > ld[j].idx /\ ld[j + 1].off = 0
            /\ (b.as_long_data /\ last.ok) =>
                  {ld[j].idx : j \in DOMAIN ld} = BytePositions(last.params.vals)
            /\ (b.as_long_data /\ ~last.ok) =>
                  \A i \in BytePositions(last.params.vals) :
                      (\E j \in DOMAIN ld : ld[j].idx > i) => \E j \in DOMAIN ld : ld[j].idx = i

\* A value that is no byte value and a byte value were bound, and long data
\* went out for the second position alone.
C19_Witness ==
    /\ IsExecute /\ last.ok
    /\ Len(last.params.vals) = 2
    /\ ~last.params.vals[1].bytes /\ last.params.vals[2].bytes
    /\ LongDataFor(1) # <<>> /\ LongDataFor(0) = <<>>

\* C20: the loop of execute_statement ends: after one pass, or after two when
\* the first converted a Named set to a Positional one; it ends with a binding
\* error, with a failed write or with the execute payload written last.
C20_LoopEnds ==
    IsExecute =>
        /\ last.iters \in {1, 2}
        /\ last.err # "Loop"
        /\ (last.iters = 2) <=> NamedComplete
        /\ last.ok => /\ last.trace # <<>>
                      /\ last.trace[Len(last.trace)].cmd = "COM_STMT_EXECUTE"
                      /\ last.trace[Len(last.trace)].ok
        /\ ~last.ok =>
              \/ last.err \in {"StmtParamsMismatch", "NamedParamsForPositionalQuery",
                               "MissingNamedParameter"} /\ last.trace = <<>>
              \/ last.err = "Io" /\ ~last.trace[Len(last.trace)].ok

\* A Named set was converted and its execute payload written on the second pass.
C20_Witness ==
    /\ IsExecute /\ last.ok
    /\ last.params.tag = "Named"
    /\ last.iters = 2

====
